---- MODULE Spec2Model ----
(***************************************************************************)
(* Model of tools/cropdetect.py: the crop consensus reducer                *)
(* (choose_best_crop), the FFmpeg sampling loop (detect_ffmpeg), the       *)
(* VapourSynth scan (detect_vapoursynth) and the batch loop of main.       *)
(*                                                                         *)
(* Conventions.                                                            *)
(*  - A Python str that the code formats and parses again (the crop key    *)
(*    "w:h:x:y") is a sequence of one-character strings.                   *)
(*  - A Python float computed from integers (freq, ar, score) is an exact  *)
(*    rational [n, d] in lowest terms with d > 0; the IEEE rounding of the *)
(*    interpreter is not modelled.                                         *)
(*  - A threshold (limit) is an integer number of hundredths (0.06 is 6).  *)
(*  - A duration is an integer number of seconds, a timestamp an integer   *)
(*    number of milliseconds.                                              *)
(***************************************************************************)
EXTENDS Integers, Sequences, FiniteSets, TLC

VARIABLES
    pc,             \* position of main (or of the reducer under SpecChoose)
    settings,       \* load_settings(): key -> raw value read from settings.txt
    args,           \* argparse namespace: aggressive, samples
    manual_crop,    \* main: the four parsed manual margins
    videos,         \* find_videos(): the batch, a sequence of files
    idx,            \* main: 1-based position in the batch
    vi,             \* VideoInfo of the current video, or None
    det,            \* detect_ffmpeg: timestamps and loop position
    observed,       \* detect_ffmpeg: Counter, in insertion order
    crop_to_limits, \* detect_ffmpeg: key -> set of limits
    scan,           \* detect_vapoursynth: frames to analyse, position, minima
    res,            \* the CropResult of the current video, or None
    results_rows,   \* main: the rows of the report
    report_written, \* main: the CSV was written
    last_call,      \* the most recent external tool call and how it ended
    exc,            \* the exception that left main uncaught, or "none"
    progress,       \* detect_ffmpeg: the PROGRESS values printed by this call
    \* opus.py
    files,          \* run_phase: the files of the phase
    files_queue,    \* queue.Queue: the files not yet taken, in order
    unfinished_tasks, \* queue.Queue: puts not yet matched by task_done()
    threads,        \* run_phase: slot -> position and file of the worker
    taken,          \* the (file, slot) pairs handed out by get_nowait()
    \* mux.py
    av1_files,      \* mux_files: the *-av1.mkv files found, by base name
    mux_i,          \* mux_files: 1-based position in av1_files
    is_vfr,         \* mux_files: the source has a variable frame rate
    disk,           \* the files in the output directory
    \* workercount.py
    polls,          \* get_optimal_workers: iterations of the monitor loop
    max_total_rss,  \* get_optimal_workers: the peak reading
    total_ram,      \* psutil.virtual_memory().total
    cpu_threads,    \* os.cpu_count()
    final_workers,  \* the value get_optimal_workers returns
    \* dispatch.py
    argv,           \* sys.argv[1:]
    mediainfo,      \* what the MediaInfo run gave
    current_flags,  \* the flags to inject
    final_cmd,      \* the command built for the encoder
    \* rename.py
    filename,       \* the argument of clean_filename
    new_name        \* the value clean_filename returned

opusVars == <<files, files_queue, unfinished_tasks, threads, taken>>
muxVars == <<av1_files, mux_i, is_vfr, disk>>
workerVars == <<polls, max_total_rss, total_ram, cpu_threads, final_workers>>
dispatchVars == <<argv, mediainfo, current_flags, final_cmd>>
renameVars == <<filename, new_name>>

\* the state of the tools other than cropdetect.py
otherTools == <<opusVars, muxVars, workerVars, dispatchVars, renameVars>>

vars == <<pc, settings, args, manual_crop, videos, idx, vi, det, observed,
          crop_to_limits, scan, res, results_rows, report_written, last_call,
          exc, progress, otherTools>>

\* the tools that a run does not start: nothing queued, found, read or built
OpusIdle ==
    /\ files = <<>>
    /\ files_queue = <<>>
    /\ unfinished_tasks = 0
    /\ threads = <<>>
    /\ taken = <<>>

MuxIdle ==
    /\ av1_files = <<>>
    /\ mux_i = 0
    /\ is_vfr = FALSE
    /\ disk = {}

WorkerIdle ==
    /\ polls = 0
    /\ max_total_rss = 0
    /\ total_ram = 0
    /\ cpu_threads = 0
    /\ final_workers = 0

DispatchIdle ==
    /\ argv = <<>>
    /\ mediainfo = <<>>
    /\ current_flags = ""
    /\ final_cmd = <<>>

RenameIdle ==
    /\ filename = <<>>
    /\ new_name = <<>>

\* ------------------------------------------------------------------ bounds

\* most distinct keys of an Observation Set drawn for the reducer
MaxKeys == 2
\* most videos of a batch
MaxVideos == 2
\* most files of a phase of opus.py, and most *-av1.mkv files of mux.py
MaxFiles == 2
\* most command-line arguments of dispatch.py
MaxArgs == 4
\* most characters of a file name of rename.py before its ending
MaxNameLen == 3
\* most margin lines of a settings.txt
MaxMarginLines == 2
\* how many of the six limits of main a detect_ffmpeg run uses
MaxLimits == 2

\* Python's None
None == [kind |-> "None"]

Max(a, b) == IF a >= b THEN a ELSE b
Min(a, b) == IF a <= b THEN a ELSE b
Abs(a) == IF a < 0 THEN -a ELSE a

\* ------------------------------------------------------------ str <-> int

DigitChars == <<"0", "1", "2", "3", "4", "5", "6", "7", "8", "9">>

RECURSIVE NatStr(_)
NatStr(n) ==
    IF n < 10 THEN <<DigitChars[n + 1]>>
    ELSE NatStr(n \div 10) \o <<DigitChars[(n % 10) + 1]>>

\* f"{n}" for an int
IntStr(n) == IF n < 0 THEN <<"-">> \o NatStr(-n) ELSE NatStr(n)

\* f"{w}:{h}:{x}:{y}"
CropStr(w, h, x, y) ==
    IntStr(w) \o <<":">> \o IntStr(h) \o <<":">> \o IntStr(x) \o <<":">> \o IntStr(y)

DigitVal(c) == CHOOSE d \in 0..9 : DigitChars[d + 1] = c

RECURSIVE NatValTo(_, _)
\* the value of the first k digits of s
NatValTo(s, k) ==
    IF k = 1 THEN DigitVal(s[1])
    ELSE NatValTo(s, k - 1) * 10 + DigitVal(s[k])

NatVal(s) == NatValTo(s, Len(s))

\* int(s) for a decimal literal with an optional sign
StrInt(s) == IF s[1] = "-" THEN -NatVal(Tail(s)) ELSE NatVal(s)

RECURSIVE Ascending(_)
\* the numbers of a set, in ascending order
Ascending(S) ==
    IF S = {} THEN <<>>
    ELSE LET m == CHOOSE a \in S : \A b \in S : a <= b
         IN <<m>> \o Ascending(S \ {m})

\* s.split(sep): the pieces of s between the separators
Split(s, sep) ==
    LET cuts == <<0>> \o Ascending({i \in 1..Len(s) : s[i] = sep}) \o <<Len(s) + 1>>
    IN [k \in 1..(Len(cuts) - 1) |-> SubSeq(s, cuts[k] + 1, cuts[k + 1] - 1)]

\* w, h, x, y = map(int, crop_str.split(":"))
ParseCrop(crop_str) ==
    LET p == Split(crop_str, ":")
    IN <<StrInt(p[1]), StrInt(p[2]), StrInt(p[3]), StrInt(p[4])>>

\* ------------------------------------------------------------ float values

RECURSIVE GCD(_, _)
GCD(a, b) == IF b = 0 THEN a ELSE GCD(b, a % b)

LCM(a, b) == (a \div GCD(a, b)) * b

\* the value n / d, d > 0
Rat(n, d) == LET g == GCD(Abs(n), d) IN [n |-> n \div g, d |-> d \div g]

RatInt(k) == [n |-> k, d |-> 1]

RatAdd(p, q) ==
    LET l == LCM(p.d, q.d) IN Rat(p.n * (l \div p.d) + q.n * (l \div q.d), l)

RatSub(p, q) == RatAdd(p, [n |-> -q.n, d |-> q.d])

RatMulInt(p, k) == Rat(p.n * k, p.d)

\* p < q
RatLess(p, q) ==
    LET l == LCM(p.d, q.d) IN p.n * (l \div p.d) < q.n * (l \div q.d)

\* ----------------------------------------------------------------- reducer

area(w, h) == w * h

RECURSIVE SumCounts(_)
\* sum(observed.values())
SumCounts(obs) ==
    IF obs = <<>> THEN 0 ELSE Head(obs).count + SumCounts(Tail(obs))

\* crop_to_limits.get(crop_str, set())
LimitsOf(ctl, crop_str) == IF crop_str \in DOMAIN ctl THEN ctl[crop_str] ELSE {}

RECURSIVE SumValid(_, _)
\* variant: the counts of the skipped keys are left out of the total
SumValid(v, obs) ==
    IF obs = <<>> THEN 0
    ELSE LET p == ParseCrop(Head(obs).crop)
             a == p[1] * p[2]
         IN (IF a <= 0 \/ a > v.width * v.height THEN 0 ELSE Head(obs).count)
            + SumValid(v, Tail(obs))

\* total = sum(observed.values())
TotalSamples(v, obs) == SumCounts(obs)

\* variant: no key is skipped
RejectsNothing(a, full_area) == FALSE

\* variant: only the empty rectangles are skipped
RejectsEmptyOnly(a, full_area) == a <= 0

\* if a <= 0 or a > full_area: continue
Rejected(a, full_area) == a <= 0 \/ a > full_area

\* if w == vi.width and h == vi.height and x == 0 and y == 0
IsFullFrame(v, w, h, x, y) == w = v.width /\ h = v.height /\ x = 0 /\ y = 0

\* variant: the area term is left out of the score
ScoreNoArea(v, w, h, x, y, count, total, lim_support) ==
    LET freq == Rat(count, Max(1, total))
        raw == RatAdd(RatMulInt(freq, 1000), RatInt(lim_support * 15))
    IN IF IsFullFrame(v, w, h, x, y) THEN RatSub(raw, RatInt(5)) ELSE raw

\* variant: the threshold term is left out of the score
ScoreNoSupport(v, w, h, x, y, count, total, lim_support) ==
    LET full_area == area(v.width, v.height)
        freq == Rat(count, Max(1, total))
        ar == Rat(area(w, h), full_area)
        raw == RatAdd(RatMulInt(freq, 1000), RatMulInt(ar, 50))
    IN IF IsFullFrame(v, w, h, x, y) THEN RatSub(raw, RatInt(5)) ELSE raw

\* score = freq*1000 + ar*50 + lim_support*15, less 5 for the full frame
Score(v, w, h, x, y, count, total, lim_support) ==
    LET full_area == area(v.width, v.height)
        freq == Rat(count, Max(1, total))
        ar == Rat(area(w, h), full_area)
        raw == RatAdd(RatAdd(RatMulInt(freq, 1000), RatMulInt(ar, 50)),
                      RatInt(lim_support * 15))
    IN IF IsFullFrame(v, w, h, x, y) THEN RatSub(raw, RatInt(5)) ELSE raw

\* variant: if score >= best_score
ReplacesOrTies(best, score) == best = None \/ ~RatLess(score, best.score)

\* variant: best_score is never updated, so every scored key replaces
ReplacesAlways(best, score) == TRUE

\* if score > best_score; best_score starts at -1e18, below every score
\* (a score is at least -5), so the first scored key always replaces it
Replaces(best, score) == best = None \/ RatLess(best.score, score)

RECURSIVE BestOf(_, _, _, _, _)
\* the loop over observed.items(), from entry i on, with the best so far
BestOf(v, obs, ctl, i, best) ==
    IF i > Len(obs) THEN best
    ELSE
        LET crop_str == obs[i].crop
            count == obs[i].count
            p == ParseCrop(crop_str)
            w == p[1]
            h == p[2]
            x == p[3]
            y == p[4]
            a == area(w, h)
            full_area == area(v.width, v.height)
            total == TotalSamples(v, obs)
            lim_support == Cardinality(LimitsOf(ctl, crop_str))
        IN IF Rejected(a, full_area) THEN BestOf(v, obs, ctl, i + 1, best)
           ELSE
               LET score == Score(v, w, h, x, y, count, total, lim_support)
               IN IF Replaces(best, score)
                  THEN BestOf(v, obs, ctl, i + 1,
                              [score |-> score, crop_str |-> crop_str, w |-> w,
                               h |-> h, x |-> x, y |-> y,
                               freq |-> Rat(count, Max(1, total)),
                               total |-> total, lim_support |-> lim_support])
                  ELSE BestOf(v, obs, ctl, i + 1, best)

\* sorted(S) for a set of numbers
Sorted(S) == Ascending(S)

\* variant: "strong" only above three thresholds
NotesAboveThree(lim_support) ==
    IF lim_support > 3 THEN "strong agreement"
    ELSE IF lim_support = 2 THEN "moderate agreement"
    ELSE "single-threshold agreement"

\* the agreement tier, then f"{notes} agreement"
Notes(lim_support) ==
    IF lim_support >= 3 THEN "strong agreement"
    ELSE IF lim_support = 2 THEN "moderate agreement"
    ELSE "single-threshold agreement"

\* CropResult(crop, w, h, x, y, confidence, samples, chosen_from_limits, notes)
CropResult(crop, w, h, x, y, confidence, samples, chosen_from_limits, notes) ==
    [crop |-> crop, w |-> w, h |-> h, x |-> x, y |-> y,
     confidence |-> confidence, samples |-> samples,
     chosen_from_limits |-> chosen_from_limits, notes |-> notes]

choose_best_crop(v, obs, ctl) ==
    IF obs = <<>> THEN None
    ELSE
        LET best == BestOf(v, obs, ctl, 1, None)
        IN IF best = None THEN None
           ELSE CropResult(best.crop_str, best.w, best.h, best.x, best.y,
                           best.freq, best.total,
                           Sorted(LimitsOf(ctl, best.crop_str)),
                           Notes(best.lim_support))

\* ------------------------------------------------------------- environment

\* the six limits of main's FFmpeg mode, in hundredths
Limits == <<6, 8, 12, 18, 25, 35>>

\* the files a batch is drawn from: what ffprobe reports for each, and the
\* height of the black bar above and below its picture
Files ==
    { [path |-> "a.mkv", width |-> 40, height |-> 40, duration |-> 20, bar |-> 1],
      [path |-> "b.mkv", width |-> 1920, height |-> 1080, duration |-> 8, bar |-> 140] }

\* VideoInfo(path, width, height, duration)
VideoInfo(f) ==
    [path |-> f.path, width |-> f.width, height |-> f.height, duration |-> f.duration]

FullRect(f) == <<f.width, f.height, 0, 0>>
BarsRect(f) == <<f.width, f.height - 2 * f.bar, 0, f.bar>>
TopRect(f) == <<f.width, f.height - 2 * f.bar, 0, 0>>
\* a full-size rectangle that starts below the top edge: it leaves the frame
ShiftedRect(f) == <<f.width, f.height, 0, f.bar>>
ZeroRect(f) == <<f.width, 0, 0, 0>>
WideRect(f) == <<2 * f.width, f.height, 0, 0>>

\* the rectangles an Observation Set is drawn from
Rects(f) == {FullRect(f), BarsRect(f), TopRect(f), ShiftedRect(f), ZeroRect(f), WideRect(f)}

\* the counts an Observation Set is drawn from
CountValues == {100, 101}

\* the threshold sets an Observation Set is drawn from
LimitSets == { {Limits[i] : i \in 1..k} : k \in 1..3 }

Key(r) == CropStr(r[1], r[2], r[3], r[4])

Injective(s) == \A i, j \in 1..Len(s) : i # j => s[i] # s[j]

\* the keys of an Observation Set, in insertion order
KeySeqs(f) ==
    LET keys == {Key(r) : r \in Rects(f)}
    IN { s \in UNION { [1..n -> keys] : n \in 0..MaxKeys } : Injective(s) }

\* --------------------------------------------------------- main: settings

MarginKeys == {"top", "bottom", "left", "right"}

ManualWord == <<"m", "a", "n", "u", "a", "l">>
AutoWord == <<"a", "u", "t", "o">>

\* the values a margin line of settings.txt holds in a drawn run
RawMargins == { <<"x">>, <<"-", "2">>, <<"1", "4", "0">>, <<"6", "0", "0">> }

WithCrop(m) ==
    [k \in DOMAIN m \cup {"crop"} |->
        IF k = "crop" THEN <<"M", "a", "n", "u", "a", "l">> ELSE m[k]]

\* settings.txt: no line at all, or crop=Manual with any of the margin lines
SettingsSpace ==
    { [k \in {} |-> <<>>] } \cup
    { WithCrop(m) :
        m \in UNION { [D -> RawMargins] :
                        D \in { E \in SUBSET MarginKeys :
                                  Cardinality(E) <= MaxMarginLines } } }

\* the values of --samples a run is drawn with
SampleCounts == {0, 1}

\* str.lower(), on the letters the settings hold
LowerChar(c) == IF c = "M" THEN "m" ELSE c
Lower(s) == [i \in 1..Len(s) |-> LowerChar(s[i])]

\* crop_mode = settings.get("crop", "auto").lower()
crop_mode(st) == Lower(IF "crop" \in DOMAIN st THEN st["crop"] ELSE AutoWord)

\* int(s) succeeds: an optional sign, then digits only
IsIntLiteral(s) ==
    LET body == IF s[1] \in {"-", "+"} THEN Tail(s) ELSE s
    IN /\ Len(body) > 0
       /\ \A i \in 1..Len(body) : \E d \in 1..10 : DigitChars[d] = body[i]

\* the keys of manual_crop in the order the loop visits them
MarginOrder == <<"top", "bottom", "left", "right">>

\* variant: one try around the whole loop, so the first value that does not
\* parse ends the loop and the later margins stay 0
ParseMarginOneTry(st, k) ==
    LET pos == CHOOSE i \in 1..4 : MarginOrder[i] = k
    IN IF \E i \in 1..pos :
             /\ MarginOrder[i] \in DOMAIN st
             /\ ~IsIntLiteral(st[MarginOrder[i]])
       THEN 0
       ELSE IF k \in DOMAIN st THEN StrInt(st[k]) ELSE 0

\* try: manual_crop[k] = int(settings.get(k, 0))  except: pass
ParseMargin(st, k) ==
    IF k \notin DOMAIN st THEN 0
    ELSE IF IsIntLiteral(st[k]) THEN StrInt(st[k])
    ELSE 0

\* the manual_crop dict once main has read the settings
ParseMargins(st) ==
    IF crop_mode(st) = ManualWord
    THEN [k \in MarginKeys |-> ParseMargin(st, k)]
    ELSE [k \in MarginKeys |-> 0]

\* the batches find_videos returns
Batches == UNION { [1..n -> Files] : n \in 0..MaxVideos }

\* ----------------------------------------------------- main: one iteration

\* variant: the bottom and right margins are not subtracted
ManualResultTopLeftOnly(v, mc) ==
    LET mw == v.width - mc.left
        mh == v.height - mc.top
    IN CropResult(CropStr(mw, mh, mc.left, mc.top), mw, mh, mc.left, mc.top,
                  RatInt(1), 1, <<>>, "Manual")

\* the CropResult of manual mode
ManualResult(v, mc) ==
    LET mw0 == v.width - mc.left - mc.right
        mh0 == v.height - mc.top - mc.bottom
        over == mw0 <= 0 \/ mh0 <= 0
        mw == IF over THEN v.width ELSE mw0
        mh == IF over THEN v.height ELSE mh0
    IN CropResult(CropStr(mw, mh, mc.left, mc.top), mw, mh, mc.left, mc.top,
                  RatInt(1), 1, <<>>, "Manual")

\* variant: the fallback keeps the confidence 1.0 of the other modes
FallbackConfident(v) ==
    CropResult(CropStr(v.width, v.height, 0, 0), v.width, v.height, 0, 0,
               RatInt(1), 0, <<>>, "Failed/Full")

\* if not res: the full frame, confidence 0, "Failed/Full"
Fallback(v) ==
    CropResult(CropStr(v.width, v.height, 0, 0), v.width, v.height, 0, 0,
               RatInt(0), 0, <<>>, "Failed/Full")

\* round(x, 4), in ten-thousandths
Round4(r) == (2 * 10000 * r.n + r.d) \div (2 * r.d)

\* the row main appends for a video
Row(file, v, r) ==
    [file |-> file, width |-> v.width, height |-> v.height,
     duration_sec |-> v.duration, crop |-> r.crop, crop_w |-> r.w,
     crop_h |-> r.h, crop_x |-> r.x, crop_y |-> r.y,
     confidence |-> Round4(r.confidence), samples_seen |-> r.samples,
     limits_agreed |-> r.chosen_from_limits, notes |-> r.notes,
     ffmpeg_apply |-> <<"c", "r", "o", "p", "=">> \o r.crop]

\* the end of one iteration of main's loop: fallback, row, next video
Report(r) ==
    /\ res' = r
    /\ results_rows' =
         Append(results_rows,
                Row(idx, vi, IF r = None THEN Fallback(vi) ELSE r))
    /\ idx' = idx + 1
    /\ pc' = IF idx + 1 > Len(videos) THEN "write" ELSE "probe"

\* ------------------------------------------------------------ sample times

\* the list comprehension divides by n - 1
sample_timestamps_raises(duration, n) == duration > 10 /\ n = 1

sample_timestamps(duration, n) ==
    IF duration > 10 THEN
        LET start == Max(500, duration * 50)
            end == Max(start + 1000, duration * 950)
        IN IF end <= start THEN <<start>>
           ELSE [i \in 1..Max(n, 0) |->
                    start + ((end - start) * (i - 1)) \div (n - 1)]
    ELSE SubSeq(<<500, 3000, 8000, 15000>>, 1, Max(1, Min(n, 4)))

\* ---------------------------------------------------------- detect_ffmpeg

\* the limits a run loops over
UsedLimits == SubSeq(Limits, 1, MaxLimits)

\* the crop lines one detector call prints for a file: nothing, the
\* picture between the bars on one frame or on two, or a rectangle that
\* leaves the frame
DetectorOutputs(f) ==
    { <<>>, <<BarsRect(f)>>, <<BarsRect(f), BarsRect(f)>>, <<ShiftedRect(f)>> }

IndexOfKey(obs, c) ==
    IF \E i \in 1..Len(obs) : obs[i].crop = c
    THEN CHOOSE i \in 1..Len(obs) : obs[i].crop = c
    ELSE 0

\* variant: observed[c] = 1
CountUpOnce(obs, c) ==
    IF \E i \in 1..Len(obs) : obs[i].crop = c THEN obs
    ELSE Append(obs, [crop |-> c, count |-> 1])

\* observed[c] += 1
CountUp(obs, c) ==
    IF IndexOfKey(obs, c) = 0 THEN Append(obs, [crop |-> c, count |-> 1])
    ELSE [obs EXCEPT ![IndexOfKey(obs, c)].count = @ + 1]

\* crop_to_limits[c].add(lim)
AddLimit(ctl, c, lim) ==
    [k \in DOMAIN ctl \cup {c} |->
        IF k = c THEN LimitsOf(ctl, c) \cup {lim} ELSE ctl[k]]

RECURSIVE Accumulate(_, _, _, _)
\* for w, h, x, y in crops: the pair <<observed, crop_to_limits>> afterwards
Accumulate(obs, ctl, crops, lim) ==
    IF crops = <<>> THEN <<obs, ctl>>
    ELSE LET c == Key(Head(crops))
         IN Accumulate(CountUp(obs, c), AddLimit(ctl, c, lim), Tail(crops), lim)

\* both for loops have run out
LoopDone(d) == d.timestamps = <<>> \/ d.li > Len(UsedLimits)

\* the next (lim, ts) pair
StepPair(d) ==
    IF d.ti < Len(d.timestamps) THEN [d EXCEPT !.ti = @ + 1]
    ELSE [d EXCEPT !.li = @ + 1, !.ti = 1]

\* total_steps = len(limits) * len(timestamps)
total_steps(d) == Len(UsedLimits) * Len(d.timestamps)

\* current_step once the pair d stands at has been counted: the pairs
\* before it, plus one
current_step(d) == (d.li - 1) * Len(d.timestamps) + d.ti

\* variant: the value is printed before the pair is counted
ProgressBeforeCount(d) == ((current_step(d) - 1) * 100) \div total_steps(d)

\* int((current_step / total_steps) * 100), printed with --progress-mode,
\* which the runs drawn here pass; for the step counts drawn the float
\* product truncates to the same integer
ProgressValue(d) == (current_step(d) * 100) \div total_steps(d)

\* ------------------------------------------------------ detect_vapoursynth

\* the clips the generated script can open: frame count and frame rate
Clips ==
    { [num_frames |-> 1, fps_num |-> 24, fps_den |-> 1],
      [num_frames |-> 8, fps_num |-> 24, fps_den |-> 1],
      [num_frames |-> 40, fps_num |-> 24, fps_den |-> 1] }

start_frame(clip) == Min(1000, clip.num_frames \div 4)
end_frame(clip) == Max(clip.num_frames - 1 - 1000, (clip.num_frames * 3) \div 4)
considered(clip) == end_frame(clip) - start_frame(clip)

\* the interval before the division by it
interval(clip, mode, value) ==
    LET i0 == IF mode = 1 THEN considered(clip) \div value
              ELSE IF mode = 2 THEN value
              ELSE IF mode = 3 THEN (value * clip.fps_num) \div clip.fps_den
              ELSE 1
        i1 == Max(1, i0)
    IN IF considered(clip) > 0 THEN Min(i1, considered(clip) \div 5) ELSE i1

\* ZeroDivisionError: the frame rate or the interval is 0
frames_raise(clip, mode, value) ==
    \/ clip.fps_den = 0
    \/ (mode = 1 /\ value = 0)
    \/ interval(clip, mode, value) = 0

RECURSIVE FramesFrom(_, _, _)
\* while curr < end_frame: append, curr += interval
FramesFrom(curr, last, step) ==
    IF curr < last THEN <<curr>> \o FramesFrom(curr + step, last, step) ELSE <<>>

analyze_frames(clip, mode, value) ==
    LET iv == interval(clip, mode, value)
        c == considered(clip)
        curr == start_frame(clip) + ((c - ((c \div iv) * iv)) \div 2)
    IN FramesFrom(curr, end_frame(clip), iv)

\* a decoded frame: whether any pixel reaches the threshold, and the first
\* and last row and column that hold one
BlankFrame(f) ==
    [width |-> f.width, height |-> f.height, content |-> FALSE,
     top_row |-> 0, bottom_row |-> 0, left_col |-> 0, right_col |-> 0]
BarsFrame(f) ==
    [width |-> f.width, height |-> f.height, content |-> TRUE,
     top_row |-> f.bar, bottom_row |-> f.height - 1 - f.bar,
     left_col |-> 0, right_col |-> f.width - 1]
FullFrame(f) ==
    [width |-> f.width, height |-> f.height, content |-> TRUE,
     top_row |-> 0, bottom_row |-> f.height - 1,
     left_col |-> 0, right_col |-> f.width - 1]

FrameContents(f) == {BlankFrame(f), BarsFrame(f), FullFrame(f)}

\* (left, top, right, bottom)
vs_scan_frame(frame) ==
    IF ~frame.content
    THEN <<frame.height \div 2, frame.height \div 2,
           frame.width \div 2, frame.width \div 2>>
    ELSE <<frame.left_col, frame.top_row,
           frame.width - 1 - frame.right_col,
           frame.height - 1 - frame.bottom_row>>

\* the CropResult built from the minima once the loop has ended
ScanResult(v, sc) ==
    LET final_w == v.width - sc.min_left - sc.min_right
        final_h == v.height - sc.min_top - sc.min_bottom
    IN CropResult(CropStr(final_w, final_h, sc.min_left, sc.min_top),
                  final_w, final_h, sc.min_left, sc.min_top,
                  RatInt(1), Len(sc.frames), <<>>,
                  "VapourSynth Aggressive Scan")

NoScan ==
    [frames |-> <<>>, i |-> 0, min_left |-> 0, min_top |-> 0,
     min_right |-> 0, min_bottom |-> 0, stop |-> FALSE]

NoDet == [timestamps |-> <<>>, li |-> 0, ti |-> 0]

NoLimits == [c \in {} |-> {}]

\* ------------------------------------------------------------ main: actions

Init ==
    /\ pc = "start"
    /\ settings \in SettingsSpace
    /\ args \in [aggressive : BOOLEAN, samples : SampleCounts]
    /\ (crop_mode(settings) = ManualWord \/ args.aggressive) => args.samples = 1
    /\ videos \in Batches
    /\ manual_crop = [k \in MarginKeys |-> 0]
    /\ idx = 0
    /\ vi = None
    /\ det = NoDet
    /\ observed = <<>>
    /\ crop_to_limits = NoLimits
    /\ scan = NoScan
    /\ res = None
    /\ results_rows = <<>>
    /\ report_written = FALSE
    /\ last_call = [tool |-> "none", outcome |-> "none"]
    /\ exc = "none"
    /\ progress = <<>>
    /\ OpusIdle /\ MuxIdle /\ WorkerIdle /\ DispatchIdle /\ RenameIdle

\* main up to its loop: the settings are read, the margins parsed, the
\* videos found; without videos main returns 2
Start ==
    /\ pc = "start"
    /\ manual_crop' = ParseMargins(settings)
    /\ IF videos = <<>>
       THEN pc' = "exit" /\ idx' = idx
       ELSE pc' = "probe" /\ idx' = 1
    /\ UNCHANGED <<settings, args, videos, vi, det, observed, crop_to_limits,
                   scan, res, results_rows, report_written, last_call, exc>>
    /\ UNCHANGED <<progress, otherTools>>

\* vi = ffprobe_info(vp): the call times out (the exception leaves main),
\* fails (None, the video is skipped) or reports the video
Probe ==
    /\ pc = "probe"
    /\ \E o \in {"ok", "fail", "timeout"} :
         /\ last_call' = [tool |-> "ffprobe", outcome |-> o]
         /\ IF o = "timeout"
            THEN /\ pc' = "crashed"
                 /\ exc' = "TimeoutExpired"
                 /\ UNCHANGED <<vi, idx>>
            ELSE IF o = "fail"
            THEN /\ vi' = None
                 /\ idx' = idx + 1
                 /\ pc' = IF idx + 1 > Len(videos) THEN "write" ELSE "probe"
                 /\ exc' = exc
            ELSE /\ vi' = VideoInfo(videos[idx])
                 /\ pc' = "dispatch"
                 /\ UNCHANGED <<idx, exc>>
    /\ UNCHANGED <<settings, args, manual_crop, videos, det, observed,
                   crop_to_limits, scan, res, results_rows, report_written>>
    /\ UNCHANGED <<progress, otherTools>>

\* the manual branch of the loop body, to the end of the iteration
ManualCrop ==
    /\ pc = "dispatch"
    /\ crop_mode(settings) = ManualWord
    /\ Report(ManualResult(vi, manual_crop))
    /\ UNCHANGED <<settings, args, manual_crop, videos, vi, det, observed,
                   crop_to_limits, scan, report_written, last_call, exc>>
    /\ UNCHANGED <<progress, otherTools>>

\* detect_ffmpeg up to its first detector call
DetectBegin ==
    /\ pc = "dispatch"
    /\ crop_mode(settings) # ManualWord
    /\ ~args.aggressive
    /\ progress' = <<>>
    /\ IF sample_timestamps_raises(vi.duration, args.samples)
       THEN /\ pc' = "crashed"
            /\ exc' = "ZeroDivisionError"
            /\ UNCHANGED <<det, observed, crop_to_limits>>
       ELSE /\ det' = [timestamps |-> sample_timestamps(vi.duration, args.samples),
                       li |-> 1, ti |-> 1]
            /\ observed' = <<>>
            /\ crop_to_limits' = NoLimits
            /\ pc' = "ffmpeg"
            /\ exc' = exc
    /\ UNCHANGED <<settings, args, manual_crop, videos, idx, vi, scan, res,
                   results_rows, report_written, last_call>>
    /\ UNCHANGED otherTools

\* one (lim, ts) pair of detect_ffmpeg: run_cropdetect_segment returns the
\* crop lines of the output (whatever the exit status, check=False), or
\* subprocess.run raises TimeoutExpired, which nothing catches; last_call
\* keeps the number of crop lines the call returned
Segment ==
    /\ pc = "ffmpeg"
    /\ ~LoopDone(det)
    /\ \/ /\ last_call' = [tool |-> "ffmpeg", outcome |-> "timeout"]
          /\ pc' = "crashed"
          /\ exc' = "TimeoutExpired"
          /\ UNCHANGED <<det, observed, crop_to_limits, progress>>
       \/ \E crops \in DetectorOutputs(videos[idx]) :
            LET acc == Accumulate(observed, crop_to_limits, crops,
                                  UsedLimits[det.li])
            IN /\ last_call' = [tool |-> "ffmpeg", outcome |-> "returned",
                                lines |-> Len(crops)]
               /\ observed' = acc[1]
               /\ crop_to_limits' = acc[2]
               /\ det' = StepPair(det)
               /\ progress' = Append(progress, ProgressValue(det))
               /\ UNCHANGED <<pc, exc>>
    /\ UNCHANGED <<settings, args, manual_crop, videos, idx, vi, scan, res,
                   results_rows, report_written>>
    /\ UNCHANGED otherTools

\* the return of detect_ffmpeg and the rest of the iteration
DetectEnd ==
    /\ pc = "ffmpeg"
    /\ LoopDone(det)
    /\ Report(choose_best_crop(vi, observed, crop_to_limits))
    /\ UNCHANGED <<settings, args, manual_crop, videos, vi, det, observed,
                   crop_to_limits, scan, report_written, last_call, exc>>
    /\ UNCHANGED <<progress, otherTools>>

\* variant: --aggressive is looked at before the crop mode
ScanBeginFirst ==
    /\ pc = "dispatch"
    /\ args.aggressive
    /\ \/ /\ last_call' = [tool |-> "vapoursynth", outcome |-> "error"]
          /\ Report(None)
          /\ UNCHANGED scan
       \/ \E clip \in Clips :
            /\ last_call' = [tool |-> "vapoursynth", outcome |-> "returned"]
            /\ IF frames_raise(clip, 3, 15)
               THEN Report(None) /\ UNCHANGED scan
               ELSE /\ scan' = [frames |-> analyze_frames(clip, 3, 15), i |-> 1,
                                min_left |-> vi.width, min_top |-> vi.height,
                                min_right |-> vi.width, min_bottom |-> vi.height,
                                stop |-> FALSE]
                    /\ pc' = "vs"
                    /\ UNCHANGED <<res, results_rows, idx>>
    /\ UNCHANGED <<settings, args, manual_crop, videos, vi, det, observed,
                   crop_to_limits, report_written, exc>>
    /\ UNCHANGED <<progress, otherTools>>

\* detect_vapoursynth up to its frame loop: the module is missing or the
\* script fails (None), or the clip opens and the frames are chosen; a
\* ZeroDivisionError there is caught and gives None
ScanBegin ==
    /\ pc = "dispatch"
    /\ crop_mode(settings) # ManualWord
    /\ args.aggressive
    /\ \/ /\ last_call' = [tool |-> "vapoursynth", outcome |-> "error"]
          /\ Report(None)
          /\ UNCHANGED scan
       \/ \E clip \in Clips :
            /\ last_call' = [tool |-> "vapoursynth", outcome |-> "returned"]
            /\ IF frames_raise(clip, 3, 15)
               THEN Report(None) /\ UNCHANGED scan
               ELSE /\ scan' = [frames |-> analyze_frames(clip, 3, 15), i |-> 1,
                                min_left |-> vi.width, min_top |-> vi.height,
                                min_right |-> vi.width, min_bottom |-> vi.height,
                                stop |-> FALSE]
                    /\ pc' = "vs"
                    /\ UNCHANGED <<res, results_rows, idx>>
    /\ UNCHANGED <<settings, args, manual_crop, videos, vi, det, observed,
                   crop_to_limits, report_written, exc>>
    /\ UNCHANGED <<progress, otherTools>>

\* one frame of the analyse loop: get_frame raises (caught, None), or the
\* frame is scanned and the minima updated
ScanFrame ==
    /\ pc = "vs"
    /\ scan.i <= Len(scan.frames)
    /\ ~scan.stop
    /\ \/ /\ last_call' = [tool |-> "vapoursynth", outcome |-> "error"]
          /\ Report(None)
          /\ UNCHANGED scan
       \/ \E frame \in FrameContents(videos[idx]) :
            LET b == vs_scan_frame(frame)
                l == Min(scan.min_left, b[1])
                t == Min(scan.min_top, b[2])
                r == Min(scan.min_right, b[3])
                bt == Min(scan.min_bottom, b[4])
            IN /\ last_call' = [tool |-> "vapoursynth", outcome |-> "returned"]
               /\ scan' = [scan EXCEPT !.i = @ + 1, !.min_left = l, !.min_top = t,
                                       !.min_right = r, !.min_bottom = bt,
                                       !.stop = (l = 0 /\ t = 0 /\ r = 0 /\ bt = 0)]
               /\ UNCHANGED <<pc, res, results_rows, idx>>
    /\ UNCHANGED <<settings, args, manual_crop, videos, vi, det, observed,
                   crop_to_limits, report_written, exc>>
    /\ UNCHANGED <<progress, otherTools>>

\* the return of detect_vapoursynth and the rest of the iteration
ScanEnd ==
    /\ pc = "vs"
    /\ (scan.i > Len(scan.frames) \/ scan.stop)
    /\ Report(ScanResult(vi, scan))
    /\ UNCHANGED <<settings, args, manual_crop, videos, vi, det, observed,
                   crop_to_limits, scan, report_written, last_call, exc>>
    /\ UNCHANGED <<progress, otherTools>>

\* after the loop: the CSV (and JSON) report is written, main returns 0
WriteReport ==
    /\ pc = "write"
    /\ report_written' = TRUE
    /\ pc' = "done"
    /\ UNCHANGED <<settings, args, manual_crop, videos, idx, vi, det, observed,
                   crop_to_limits, scan, res, results_rows, last_call, exc>>
    /\ UNCHANGED <<progress, otherTools>>

Next ==
    \/ Start
    \/ Probe
    \/ ManualCrop
    \/ DetectBegin
    \/ Segment
    \/ DetectEnd
    \/ ScanBegin
    \/ ScanFrame
    \/ ScanEnd
    \/ WriteReport

Spec == Init /\ [][Next]_vars

\* ------------------------------------------------------- reducer, on its own

MainIdle ==
    /\ settings = [k \in {} |-> <<>>]
    /\ args = [aggressive |-> FALSE, samples |-> 0]
    /\ manual_crop = [k \in MarginKeys |-> 0]
    /\ videos = <<>>
    /\ idx = 0
    /\ det = NoDet
    /\ scan = NoScan
    /\ results_rows = <<>>
    /\ report_written = FALSE
    /\ last_call = [tool |-> "none", outcome |-> "none"]
    /\ exc = "none"
    /\ progress = <<>>

InitChoose ==
    /\ pc = "choose"
    /\ res = None
    /\ MainIdle
    /\ OpusIdle /\ MuxIdle /\ WorkerIdle /\ DispatchIdle /\ RenameIdle
    /\ \E f \in Files :
         /\ vi = VideoInfo(f)
         /\ \E ks \in KeySeqs(f) :
              \E cs \in [1..Len(ks) -> CountValues] :
                \E ls \in [1..Len(ks) -> LimitSets] :
                  /\ observed = [i \in 1..Len(ks) |->
                                   [crop |-> ks[i], count |-> cs[i]]]
                  /\ crop_to_limits =
                       [c \in {ks[i] : i \in 1..Len(ks)} |->
                          ls[CHOOSE i \in 1..Len(ks) : ks[i] = c]]

\* variant: the call takes the thresholds of the keys it scores out of
\* crop_to_limits (pop instead of get)
ChooseBestPopping ==
    /\ pc = "choose"
    /\ res' = choose_best_crop(vi, observed, crop_to_limits)
    /\ crop_to_limits' =
         [c \in { k \in DOMAIN crop_to_limits :
                    LET p == ParseCrop(k)
                    IN Rejected(area(p[1], p[2]), area(vi.width, vi.height)) }
            |-> crop_to_limits[c]]
    /\ pc' = "chosen"
    /\ UNCHANGED <<settings, args, manual_crop, videos, idx, vi, det, observed,
                   scan, results_rows, report_written, last_call, exc>>
    /\ UNCHANGED <<progress, otherTools>>

\* one call choose_best_crop(vi, observed, crop_to_limits)
ChooseBest ==
    /\ pc = "choose"
    /\ res' = choose_best_crop(vi, observed, crop_to_limits)
    /\ pc' = "chosen"
    /\ UNCHANGED <<settings, args, manual_crop, videos, idx, vi, det, observed,
                   crop_to_limits, scan, results_rows, report_written,
                   last_call, exc>>
    /\ UNCHANGED <<progress, otherTools>>

\* a second call choose_best_crop(vi, observed, crop_to_limits) on the same
\* objects
ChooseAgain ==
    /\ pc = "chosen"
    /\ res' = choose_best_crop(vi, observed, crop_to_limits)
    /\ pc' = "again"
    /\ UNCHANGED <<settings, args, manual_crop, videos, idx, vi, det, observed,
                   crop_to_limits, scan, results_rows, report_written,
                   last_call, exc>>
    /\ UNCHANGED <<progress, otherTools>>

NextChoose ==
    \/ ChooseBest
    \/ ChooseAgain

SpecChoose == InitChoose /\ [][NextChoose]_vars

\* cropdetect.py is not run
CropdetectIdle ==
    /\ MainIdle
    /\ vi = None
    /\ observed = <<>>
    /\ crop_to_limits = NoLimits
    /\ res = None

\* what a step of another tool leaves alone: the state of cropdetect.py and
\* of the tools named
ToolFrame(others) ==
    UNCHANGED <<settings, args, manual_crop, videos, idx, vi, det, observed,
                crop_to_limits, scan, res, results_rows, report_written,
                last_call, exc, progress, others>>

\* ------------------------------------------------------ opus.py: run_phase

\* PARALLELISM = max(1, TOTAL_THREADS - 1), for the machine of a drawn run
PARALLELISM == 2

\* the module is loaded (the queue is empty) and run_phase is called with
\* 0..MaxFiles files, numbered in order; no worker thread is started yet
InitOpus ==
    /\ pc = "run_phase"
    /\ files \in { [k \in 1..n |-> k] : n \in 0..MaxFiles }
    /\ files_queue = <<>>
    /\ unfinished_tasks = 0
    /\ threads = [i \in 1..PARALLELISM |-> [pc |-> "unstarted", input_file |-> 0]]
    /\ taken = <<>>
    /\ CropdetectIdle
    /\ MuxIdle /\ WorkerIdle /\ DispatchIdle /\ RenameIdle

\* if not files: return; for f in files: files_queue.put(f)
PutFiles ==
    /\ pc = "run_phase"
    /\ IF files = <<>>
       THEN pc' = "complete" /\ UNCHANGED <<files_queue, unfinished_tasks>>
       ELSE /\ files_queue' = files_queue \o files
            /\ unfinished_tasks' = unfinished_tasks + Len(files)
            /\ pc' = "start"
    /\ UNCHANGED <<files, threads, taken>>

\* t = threading.Thread(target=worker_func, args=(i,)); t.start(), for the
\* next slot in order; after the last one run_phase calls files_queue.join()
StartThread ==
    /\ pc = "start"
    /\ LET i == CHOOSE k \in 1..PARALLELISM :
                  /\ threads[k].pc = "unstarted"
                  /\ \A j \in 1..(k - 1) : threads[j].pc # "unstarted"
       IN /\ threads' = [threads EXCEPT ![i].pc = "get"]
          /\ pc' = IF i = PARALLELISM THEN "join" ELSE "start"
    /\ UNCHANGED <<files, files_queue, unfinished_tasks, taken>>

\* variant: the worker reads the head of the queue and leaves it there
WorkerPeek(i) ==
    /\ threads[i].pc = "get"
    /\ IF files_queue = <<>>
       THEN /\ threads' = [threads EXCEPT ![i].pc = "exited"]
            /\ UNCHANGED taken
       ELSE /\ threads' = [threads EXCEPT ![i] =
                             [pc |-> "work", input_file |-> Head(files_queue)]]
            /\ taken' = Append(taken, [file |-> Head(files_queue), slot |-> i])
    /\ UNCHANGED <<pc, files, files_queue, unfinished_tasks>>

\* input_file = files_queue.get_nowait(), one atomic step under the
\* queue's mutex; queue.Empty ends the worker
WorkerGet(i) ==
    /\ threads[i].pc = "get"
    /\ IF files_queue = <<>>
       THEN /\ threads' = [threads EXCEPT ![i].pc = "exited"]
            /\ UNCHANGED <<files_queue, taken>>
       ELSE /\ threads' = [threads EXCEPT ![i] =
                             [pc |-> "work", input_file |-> Head(files_queue)]]
            /\ files_queue' = Tail(files_queue)
            /\ taken' = Append(taken, [file |-> Head(files_queue), slot |-> i])
    /\ UNCHANGED <<pc, files, unfinished_tasks>>

\* the rest of one iteration of worker_flac or worker_opus: the subprocess
\* runs to its end and files_queue.task_done() is called, or Popen (or the
\* read) raises and the except branch does 'continue', past task_done()
WorkerRun(i) ==
    /\ threads[i].pc = "work"
    /\ \/ unfinished_tasks' = unfinished_tasks - 1
       \/ unfinished_tasks' = unfinished_tasks
    /\ threads' = [threads EXCEPT ![i].pc = "get"]
    /\ UNCHANGED <<pc, files, files_queue, taken>>

\* files_queue.join() returns once unfinished_tasks is 0
QueueJoin ==
    /\ pc = "join"
    /\ unfinished_tasks = 0
    /\ pc' = "join_threads"
    /\ UNCHANGED <<files, files_queue, unfinished_tasks, threads, taken>>

\* for t in threads: t.join(), then run_phase returns
JoinThreads ==
    /\ pc = "join_threads"
    /\ \A i \in 1..PARALLELISM : threads[i].pc = "exited"
    /\ pc' = "complete"
    /\ UNCHANGED <<files, files_queue, unfinished_tasks, threads, taken>>

NextOpus ==
    \/ PutFiles /\ ToolFrame(<<muxVars, workerVars, dispatchVars, renameVars>>)
    \/ StartThread /\ ToolFrame(<<muxVars, workerVars, dispatchVars, renameVars>>)
    \/ \E i \in 1..PARALLELISM :
          WorkerGet(i) /\ ToolFrame(<<muxVars, workerVars, dispatchVars, renameVars>>)
    \/ \E i \in 1..PARALLELISM :
          WorkerRun(i) /\ ToolFrame(<<muxVars, workerVars, dispatchVars, renameVars>>)
    \/ QueueJoin /\ ToolFrame(<<muxVars, workerVars, dispatchVars, renameVars>>)
    \/ JoinThreads /\ ToolFrame(<<muxVars, workerVars, dispatchVars, renameVars>>)

SpecOpus == InitOpus /\ [][NextOpus]_vars

\* ------------------------------------------------------- mux.py: mux_files

\* the paths mux_files derives from the k-th *-av1.mkv file
temp_mkv(k) == <<k, "_temp_no_video.mkv">>
final_output(k) == <<k, "-output.mkv">>
timestamp_file(k) == <<k, "_timestamps.txt">>

\* the output directory holds 0..MaxFiles files named *-av1.mkv, each with
\* or without a source in the input directory, and maybe a file an
\* earlier run left
InitMux ==
    /\ pc = "mux_files"
    /\ av1_files \in UNION { [1..n -> [source_mkv : BOOLEAN]] : n \in 0..MaxFiles }
    /\ mux_i = 0
    /\ is_vfr = FALSE
    /\ disk \in { {}, {timestamp_file(1)}, {temp_mkv(1)} }
    /\ CropdetectIdle
    /\ OpusIdle /\ WorkerIdle /\ DispatchIdle /\ RenameIdle

\* for av1_file in av1_files: the loop goes on with the next file
NextFile ==
    /\ mux_i' = mux_i + 1
    /\ pc' = IF mux_i + 1 > Len(av1_files) THEN "complete" ELSE "file"

\* glob; 'if not av1_files: return'
MuxBegin ==
    /\ pc = "mux_files"
    /\ mux_i' = 1
    /\ pc' = IF av1_files = <<>> THEN "complete" ELSE "file"
    /\ UNCHANGED <<av1_files, is_vfr, disk>>

\* the source is looked up ('continue' when there is none) and
\* check_vfr_mediainfo answers
FileBegin ==
    /\ pc = "file"
    /\ IF ~av1_files[mux_i].source_mkv
       THEN NextFile /\ UNCHANGED is_vfr
       ELSE \E v \in BOOLEAN :
               /\ is_vfr' = v
               /\ pc' = IF v THEN "timecodes" ELSE "extract"
               /\ UNCHANGED mux_i
    /\ UNCHANGED <<av1_files, disk>>

\* run_command(cmd_extract_ts): mkvextract writes the timestamps file or
\* not, and ends with code 0 or not (CalledProcessError, caught at the
\* end of the iteration, which only prints)
Timecodes ==
    /\ pc = "timecodes"
    /\ \E written \in BOOLEAN, ok \in BOOLEAN :
          /\ disk' = IF written THEN disk \cup {timestamp_file(mux_i)} ELSE disk
          /\ IF ok THEN pc' = "extract" /\ UNCHANGED mux_i ELSE NextFile
    /\ UNCHANGED <<av1_files, is_vfr>>

\* run_command(cmd_step1): mkvmerge -o temp_mkv --no-video source
Extract ==
    /\ pc = "extract"
    /\ \E written \in BOOLEAN, ok \in BOOLEAN :
          /\ disk' = IF written THEN disk \cup {temp_mkv(mux_i)} ELSE disk
          /\ IF ok THEN pc' = "merge" /\ UNCHANGED mux_i ELSE NextFile
    /\ UNCHANGED <<av1_files, is_vfr>>

\* run_command(cmd_step2): mkvmerge -o final_output; on success
\* force_vfr_metadata (which raises nothing) and the cleanup: temp_mkv and
\* timestamp_file are removed if they exist; on failure the except branch
\* only prints
Merge ==
    /\ pc = "merge"
    /\ \E written \in BOOLEAN, ok \in BOOLEAN :
          LET after == IF written THEN disk \cup {final_output(mux_i)} ELSE disk
          IN disk' = IF ok
                     THEN after \ {temp_mkv(mux_i), timestamp_file(mux_i)}
                     ELSE after
    /\ NextFile
    /\ UNCHANGED <<av1_files, is_vfr>>

NextMux ==
    \/ MuxBegin /\ ToolFrame(<<opusVars, workerVars, dispatchVars, renameVars>>)
    \/ FileBegin /\ ToolFrame(<<opusVars, workerVars, dispatchVars, renameVars>>)
    \/ Timecodes /\ ToolFrame(<<opusVars, workerVars, dispatchVars, renameVars>>)
    \/ Extract /\ ToolFrame(<<opusVars, workerVars, dispatchVars, renameVars>>)
    \/ Merge /\ ToolFrame(<<opusVars, workerVars, dispatchVars, renameVars>>)

SpecMux == InitMux /\ [][NextMux]_vars

\* ---------------------------------------- workercount.py: get_optimal_workers

\* for _ in range(40)
MonitorPolls == 40

\* memory sizes, in units of 1 GiB: what memory_info().rss reports for one
\* process, and psutil.virtual_memory().total
RssValues == {0, 1, 3}
RamValues == {4, 9, 10, 16, 40}

\* os.cpu_count()
CpuValues == {1, 2, 4, 12, 16}

InitWorkers ==
    /\ pc = "get_optimal_workers"
    /\ WorkerIdle
    /\ CropdetectIdle
    /\ OpusIdle /\ MuxIdle /\ DispatchIdle /\ RenameIdle

\* subprocess.Popen(cmd): FileNotFoundError returns 1, else the monitor
\* loop starts with max_total_rss = 0
Launch ==
    /\ pc = "get_optimal_workers"
    /\ \/ pc' = "returned" /\ final_workers' = 1
       \/ pc' = "monitor" /\ UNCHANGED final_workers
    /\ UNCHANGED <<polls, max_total_rss, total_ram, cpu_threads>>

\* one iteration of the monitor loop with the process still running: the
\* parent's rss plus that of a child (0 when the child's reading raises),
\* or NoSuchProcess / AccessDenied for the parent and no reading at all
Poll ==
    /\ pc = "monitor"
    /\ polls < MonitorPolls
    /\ polls' = polls + 1
    /\ \/ \E parent \in RssValues, child \in RssValues :
             LET current_rss == parent + child
             IN max_total_rss' = IF current_rss > max_total_rss
                                 THEN current_rss ELSE max_total_rss
       \/ UNCHANGED max_total_rss
    /\ UNCHANGED <<pc, total_ram, cpu_threads, final_workers>>

\* variant: no share of the RAM is kept free
max_workers_ram_all(total, rss) == total \div rss

\* int(total_ram * 0.90 / max_total_rss)
max_workers_ram(total, rss) == (9 * total) \div (10 * rss)

\* the loop ends (40 polls, or the process ended earlier) and the result
\* is computed: 1 when nothing was measured, else the smaller of
\* max_workers_ram and max_workers_cpu = int(cpu_threads / 3), at least 1
Calculate ==
    /\ pc = "monitor"
    /\ pc' = "returned"
    /\ IF max_total_rss = 0
       THEN final_workers' = 1 /\ UNCHANGED <<total_ram, cpu_threads>>
       ELSE \E total \in RamValues, cpus \in CpuValues :
               /\ total_ram' = total
               /\ cpu_threads' = cpus
               /\ final_workers' =
                      Max(1, Min(max_workers_ram(total, max_total_rss),
                                 cpus \div 3))
    /\ UNCHANGED <<polls, max_total_rss>>

NextWorkers ==
    \/ Launch /\ ToolFrame(<<opusVars, muxVars, dispatchVars, renameVars>>)
    \/ Poll /\ ToolFrame(<<opusVars, muxVars, dispatchVars, renameVars>>)
    \/ Calculate /\ ToolFrame(<<opusVars, muxVars, dispatchVars, renameVars>>)

SpecWorkers == InitWorkers /\ [][NextWorkers]_vars

\* ------------------------------------------------------- dispatch.py: main

\* sys.argv[1:]: up to MaxArgs words
ArgLists ==
    UNION { [1..n -> {"-i", "in.mkv", "--fast-params", "--final-params",
                      "--crf 30"}] : n \in 0..MaxArgs }

ParamOptions == {"--fast-params", "--final-params"}

\* the keys main looks for in MediaInfo's output
ColorKeys == <<"Color primaries", "Transfer characteristics",
               "Matrix coefficients">>

\* values MediaInfo prints for them, character by character
BT709 == <<"B", "T", ".", "7", "0", "9">>
BT601 == <<"B", "T", ".", "6", "0", "1">>

\* the lines of a report after 'key, value = line.split(":", 1)' and
\* strip: for each key one line (BT.709 or BT.601 NTSC) or none
RECURSIVE LinesOf(_, _)
LinesOf(f, k) ==
    IF k > Len(ColorKeys) THEN <<>>
    ELSE (IF f[k] = <<>> THEN <<>>
          ELSE <<[key |-> ColorKeys[k], value |-> f[k]]>>) \o LinesOf(f, k + 1)

Reports ==
    { LinesOf(f, 1) :
        f \in [1..Len(ColorKeys) ->
                 {BT709, BT601 \o <<" ", "N", "T", "S", "C">>, <<>>}] }

\* the module is started with its arguments; mediainfo is what MediaInfo
\* prints for the input file
InitDispatch ==
    /\ pc = "dispatch"
    /\ argv \in ArgLists
    /\ mediainfo \in Reports
    /\ current_flags = ""
    /\ final_cmd = <<>>
    /\ CropdetectIdle
    /\ OpusIdle /\ MuxIdle /\ WorkerIdle /\ RenameIdle

\* an argument follows the first -i or --input
HasInputFile(a) ==
    \E i \in 1..Len(a) :
        /\ a[i] \in {"-i", "--input"}
        /\ i + 1 <= Len(a)
        /\ \A j \in 1..(i - 1) : ~(a[j] \in {"-i", "--input"} /\ j + 1 <= Len(a))

\* sub in s
Contains(sub, str) ==
    \E i \in 1..(Len(str) - Len(sub) + 1) :
        SubSeq(str, i, i + Len(sub) - 1) = sub

\* variant: BT.601 is matched by equality too
Is601Exact(value) == value = BT601

\* "BT.601" in value
Is601(value) == Contains(BT601, value)

\* one line of the report sets at most one of the six flags: value ==
\* "BT.709", elif "BT.601" in value
LineFlags(f, line) ==
    IF line.key = "Color primaries"
    THEN IF line.value = BT709 THEN [f EXCEPT !.p709 = TRUE]
         ELSE IF Is601(line.value) THEN [f EXCEPT !.p601 = TRUE] ELSE f
    ELSE IF line.key = "Transfer characteristics"
    THEN IF line.value = BT709 THEN [f EXCEPT !.t709 = TRUE]
         ELSE IF Is601(line.value) THEN [f EXCEPT !.t601 = TRUE] ELSE f
    ELSE IF line.key = "Matrix coefficients"
    THEN IF line.value = BT709 THEN [f EXCEPT !.m709 = TRUE]
         ELSE IF Is601(line.value) THEN [f EXCEPT !.m601 = TRUE] ELSE f
    ELSE f

\* for line in result.stdout.splitlines()
RECURSIVE ScanLines(_, _, _)
ScanLines(lines, k, f) ==
    IF k > Len(lines) THEN f
    ELSE ScanLines(lines, k + 1, LineFlags(f, lines[k]))

bt709_flags ==
    " --color-primaries 1 --transfer-characteristics 1 --matrix-coefficients 1"
bt601_flags ==
    " --color-primaries 6 --transfer-characteristics 6 --matrix-coefficients 6"

\* is_bt709, is_bt601 and the flags chosen from them
FlagsOf(f) ==
    IF f.p709 /\ f.t709 /\ f.m709 THEN bt709_flags
    ELSE IF f.p601 /\ f.t601 /\ f.m601 THEN bt601_flags
    ELSE ""

\* the detection: MediaInfo is run only for an input file that exists;
\* without a report (no input file, file or mediainfo missing, an error
\* code or an exception) all flags stay False
Detect ==
    /\ pc = "dispatch"
    /\ pc' = "flags"
    /\ \/ /\ HasInputFile(argv)
          /\ UNCHANGED mediainfo
       \/ mediainfo' = <<>>
    /\ current_flags' =
           FlagsOf(ScanLines(mediainfo', 1,
                             [p709 |-> FALSE, t709 |-> FALSE, m709 |-> FALSE,
                              p601 |-> FALSE, t601 |-> FALSE, m601 |-> FALSE]))
    /\ UNCHANGED <<argv, final_cmd>>

\* the loop over args with skip_next
RECURSIVE BuildFrom(_, _, _, _)
BuildFrom(a, i, skip_next, flags) ==
    IF i > Len(a) THEN <<>>
    ELSE IF skip_next THEN BuildFrom(a, i + 1, FALSE, flags)
    ELSE IF a[i] \in ParamOptions
         THEN IF i + 1 <= Len(a)
              THEN <<a[i], a[i + 1] \o flags>> \o BuildFrom(a, i + 1, TRUE, flags)
              ELSE <<a[i], "">> \o BuildFrom(a, i + 1, FALSE, flags)
    ELSE <<a[i]>> \o BuildFrom(a, i + 1, FALSE, flags)

\* final_cmd = ["python3", av1an_script] and the arguments
Build ==
    /\ pc = "flags"
    /\ pc' = "built"
    /\ final_cmd' = <<"python3", "Auto-Boost-Av1an.py">>
                        \o BuildFrom(argv, 1, FALSE, current_flags)
    /\ UNCHANGED <<argv, mediainfo, current_flags>>

NextDispatch ==
    \/ Detect /\ ToolFrame(<<opusVars, muxVars, workerVars, renameVars>>)
    \/ Build /\ ToolFrame(<<opusVars, muxVars, workerVars, renameVars>>)

SpecDispatch == InitDispatch /\ [][NextDispatch]_vars

\* --------------------------------------------------------- rename.py

SourceSuffix == <<"-", "s", "o", "u", "r", "c", "e">>
MkvExt == <<".", "m", "k", "v">>

\* file names, character by character: a stem over a small alphabet and
\* one of the endings the script deals with
NameChars == {"a", " ", ".", "("}
FileNames ==
    { st \o e : st \in UNION { [1..n -> NameChars] : n \in 0..MaxNameLen },
                e \in {<<>>, SourceSuffix, MkvExt, SourceSuffix \o MkvExt} }

\* os.path.splitext for a name without a directory: the extension starts
\* at the last dot, unless only dots stand before it
splitext(p) ==
    LET dots == { i \in 1..Len(p) : p[i] = "." }
    IN IF dots = {} THEN <<p, <<>>>>
       ELSE LET d == CHOOSE i \in dots : \A j \in dots : j <= i
            IN IF \E j \in 1..(d - 1) : p[j] # "."
               THEN <<SubSeq(p, 1, d - 1), SubSeq(p, d, Len(p))>>
               ELSE <<p, <<>>>>

\* for char in "()[]!": name = name.replace(char, "")
RemoveChars(name) ==
    SelectSeq(name, LAMBDA c : c \notin {"(", ")", "[", "]", "!"})

\* name.replace(" ", ".")
ReplaceSpaces(name) ==
    [i \in 1..Len(name) |-> IF name[i] = " " THEN "." ELSE name[i]]

\* name.endswith(suffix)
endswith(name, suffix) ==
    /\ Len(name) >= Len(suffix)
    /\ SubSeq(name, Len(name) - Len(suffix) + 1, Len(name)) = suffix

\* variant: -source is appended without looking at the name
clean_filename_always(f) ==
    LET name == ReplaceSpaces(RemoveChars(splitext(f)[1]))
    IN (name \o SourceSuffix) \o splitext(f)[2]

clean_filename(f) ==
    LET name == ReplaceSpaces(RemoveChars(splitext(f)[1]))
    IN (IF endswith(name, SourceSuffix) THEN name ELSE name \o SourceSuffix)
           \o splitext(f)[2]

InitRename ==
    /\ pc = "clean"
    /\ filename \in FileNames
    /\ new_name = <<>>
    /\ CropdetectIdle
    /\ OpusIdle /\ MuxIdle /\ WorkerIdle /\ DispatchIdle

\* new_name = clean_filename(filename)
Clean ==
    /\ pc = "clean"
    /\ new_name' = clean_filename(filename)
    /\ pc' = "cleaned"
    /\ UNCHANGED filename

\* the file carries the new name and the function is applied to it again
CleanAgain ==
    /\ pc = "cleaned"
    /\ filename' = new_name
    /\ new_name' = clean_filename(new_name)
    /\ pc' = "recleaned"

NextRename ==
    \/ Clean /\ ToolFrame(<<opusVars, muxVars, workerVars, dispatchVars>>)
    \/ CleanAgain /\ ToolFrame(<<opusVars, muxVars, workerVars, dispatchVars>>)

SpecRename == InitRename /\ [][NextRename]_vars

\* ------------------------------------------------------ claims on the reducer

\* the entries of the Observation Set, by position
Entries == 1..Len(observed)

FrameArea == vi.width * vi.height

\* what the claims say of one key of the Observation Set: its rectangle and
\* area, the number of thresholds that support it, whether the reducer may
\* return it (0 < area <= W*H), whether it is the key W:H:0:0, and its score
\* (c/total)*1000 + (area/(W*H))*50 + |L|*15, minus 5 for the key W:H:0:0,
\* total being the sum of the counts of all keys
Stated(e, total) ==
    LET r == ParseCrop(e.crop)
        a == r[1] * r[2]
        n == Cardinality(LimitsOf(crop_to_limits, e.crop))
        full == r = <<vi.width, vi.height, 0, 0>>
    IN [crop |-> e.crop, count |-> e.count, area |-> a, support |-> n,
        ok |-> (a > 0 /\ a <= FrameArea), full |-> full,
        score |-> RatAdd(RatAdd(RatMulInt(Rat(e.count, total), 1000),
                                RatMulInt(Rat(a, FrameArea), 50)),
                         RatInt(n * 15 - (IF full THEN 5 ELSE 0)))]

RECURSIVE StatedFrom(_, _)
StatedFrom(obs, total) ==
    IF obs = <<>> THEN <<>>
    ELSE <<Stated(Head(obs), total)>> \o StatedFrom(Tail(obs), total)

\* the sequence of Stated records of the Observation Set
StatedEntries == StatedFrom(observed, SumCounts(observed))

\* C1: choose_best_crop returns a non-rejected key and no non-rejected key
\* has a greater score, the score being freq*1000 + area_ratio*50 + |L|*15
\* (less 5 for the full frame) with freq taken over the counts of all keys,
\* rejected ones included.
C1_ReturnsMaxScore ==
    pc = "chosen" =>
        LET T == StatedEntries
        IN /\ (\E i \in Entries : T[i].ok) => res # None
           /\ res # None =>
                \E i \in Entries :
                   /\ res.crop = T[i].crop
                   /\ T[i].ok
                   /\ \A j \in Entries :
                        T[j].ok => ~RatLess(T[i].score, T[j].score)

\* a later key with a greater score won, beside a rejected key that counts
\* in the total
C1_Witness ==
    /\ pc = "chosen"
    /\ Len(observed) = 2
    /\ ~StatedEntries[1].ok
    /\ res # None
    /\ res.crop = observed[2].crop
    /\ res.samples = observed[1].count + observed[2].count

\* C2: with the full-frame key and a strictly smaller crop of the same count
\* and the same number of thresholds in the set, the full frame is not
\* returned.
C2_SmallerCropBeatsFullFrame ==
    pc = "chosen" =>
        LET T == StatedEntries
        IN \A i, j \in Entries :
              ( /\ T[i].full
                /\ T[j].ok
                /\ T[j].area < FrameArea
                /\ T[j].count = T[i].count
                /\ T[j].support = T[i].support )
              => (res # None /\ res.crop # T[i].crop)

\* C3: the returned rectangle has area <= W*H, and area = W*H only for the
\* key (W, H, 0, 0).
C3_AreaBound ==
    (pc = "chosen" /\ res # None) =>
        /\ res.w * res.h <= FrameArea
        /\ res.w * res.h = FrameArea =>
             <<res.w, res.h, res.x, res.y>> = <<vi.width, vi.height, 0, 0>>

\* C5 as stated: None exactly for the empty Observation Set.
C5_NoneIffEmpty ==
    pc = "chosen" => (res = None <=> observed = <<>>)

\* C5 amended: None exactly when no key of the set has 0 < area <= W*H.
C5_NoneIffNoValidKey ==
    pc = "chosen" =>
        LET T == StatedEntries
        IN res = None <=> \A i \in Entries : ~T[i].ok

\* a set that is not empty and gives None
C5_Witness ==
    /\ pc = "chosen"
    /\ observed # <<>>
    /\ res = None

\* C10: of two non-rejected keys with the same area and the same number of
\* thresholds, the one with the lower count is never returned.
C10_HigherCountWins ==
    pc = "chosen" =>
        LET T == StatedEntries
        IN \A i, j \in Entries :
              ( /\ T[i].ok
                /\ T[j].ok
                /\ T[i].area = T[j].area
                /\ T[i].support = T[j].support
                /\ T[i].count > T[j].count )
              => ~(res # None /\ res.crop = T[j].crop)

\* the number of thresholds that support the returned key
WinnerSupport == Cardinality(crop_to_limits[res.crop])

\* C11: of two non-rejected keys with equal count and equal area, the one
\* supported by fewer thresholds is never returned.
C11_MoreThresholdsWin ==
    pc = "chosen" =>
        LET T == StatedEntries
        IN \A i, j \in Entries :
              ( /\ T[i].ok
                /\ T[j].ok
                /\ T[i].count = T[j].count
                /\ T[i].area = T[j].area
                /\ T[i].support < T[j].support )
              => ~(res # None /\ res.crop = T[i].crop)

\* the key seen first has fewer thresholds than a later key of the same
\* count and area, and the later key was returned
C11_Witness ==
    /\ pc = "chosen"
    /\ Len(observed) = 2
    /\ LET T == StatedEntries
       IN /\ T[1].ok
          /\ T[2].ok
          /\ T[1].count = T[2].count
          /\ T[1].area = T[2].area
          /\ T[1].support < T[2].support
    /\ res # None
    /\ res.crop = observed[2].crop

\* C12 as stated: the notes field is the tier label itself, "strong" for 3
\* or more thresholds, "moderate" for 2, "single-threshold" for 1.
C12_NotesIsTierLabel ==
    (pc = "chosen" /\ res # None /\ WinnerSupport >= 1) =>
        res.notes = IF WinnerSupport >= 3 THEN "strong"
                    ELSE IF WinnerSupport = 2 THEN "moderate"
                    ELSE "single-threshold"

\* C12 amended: the notes field is the tier label followed by " agreement":
\* "strong agreement" for 3 or more thresholds, "moderate agreement" for 2,
\* "single-threshold agreement" for 1.
C12_NotesIsTierAgreement ==
    (pc = "chosen" /\ res # None /\ WinnerSupport >= 1) =>
        res.notes = IF WinnerSupport >= 3 THEN "strong agreement"
                    ELSE IF WinnerSupport = 2 THEN "moderate agreement"
                    ELSE "single-threshold agreement"

\* a key with three thresholds won over a key with one
C12_Witness ==
    /\ pc = "chosen"
    /\ Len(observed) = 2
    /\ res # None
    /\ WinnerSupport = 3
    /\ res.notes = "strong agreement"
    /\ \E i \in Entries : Cardinality(crop_to_limits[observed[i].crop]) = 1

\* s is strictly ascending
Ascends(s) == \A i \in 1..(Len(s) - 1) : s[i] < s[i + 1]

\* C13: the returned CropResult has confidence = count of the winning key /
\* sum of the counts of all keys (rejected ones included), samples = that
\* sum, and chosen_from_limits = the thresholds of the winning key, ascending
\* and without duplicates.
C13_ResultFields ==
    (pc = "chosen" /\ res # None) =>
        \E i \in Entries :
           /\ observed[i].crop = res.crop
           /\ res.confidence = Rat(observed[i].count, SumCounts(observed))
           /\ res.samples = SumCounts(observed)
           /\ Ascends(res.chosen_from_limits)
           /\ { res.chosen_from_limits[k] : k \in DOMAIN res.chosen_from_limits }
                = crop_to_limits[res.crop]

\* 100 of 201 observations, the other 101 on a rejected key, three thresholds
C13_Witness ==
    /\ pc = "chosen"
    /\ Len(observed) = 2
    /\ ~StatedEntries[1].ok
    /\ observed[1].count = 101
    /\ res # None
    /\ res.confidence = [n |-> 100, d |-> 201]
    /\ res.samples = 201
    /\ res.chosen_from_limits = <<6, 8, 12>>

\* C15: a key whose area is 0 or exceeds W*H is never returned, and beside
\* it the other keys are still scored: a set that holds a non-rejected key
\* gives a CropResult.
C15_RejectedKeysSkipped ==
    pc = "chosen" =>
        LET T == StatedEntries
        IN /\ \A i \in Entries :
                (T[i].area = 0 \/ T[i].area > FrameArea)
                => ~(res # None /\ res.crop = T[i].crop)
           /\ ( /\ \E i \in Entries : T[i].area = 0 \/ T[i].area > FrameArea
                /\ \E j \in Entries : T[j].area > 0 /\ T[j].area <= FrameArea )
              => res # None

\* an oversized key with the higher count came first and the key after it
\* was returned
C15_Witness ==
    /\ pc = "chosen"
    /\ Len(observed) = 2
    /\ StatedEntries[1].area > FrameArea
    /\ observed[1].count > observed[2].count
    /\ res # None
    /\ res.crop = observed[2].crop

IsBest(T, i) ==
    /\ T[i].ok
    /\ \A k \in Entries : T[k].ok => ~RatLess(T[i].score, T[k].score)

\* C21: when several non-rejected keys share the greatest score, the one
\* returned is the first of them in insertion order.
C21_FirstOfTiedWins ==
    (pc = "chosen" /\ res # None) =>
        LET T == StatedEntries
        IN \A i, j \in Entries :
              (i < j /\ IsBest(T, i) /\ IsBest(T, j)) => res.crop # T[j].crop

\* two keys of equal count, area and thresholds, neither the full frame: the
\* first was returned
C21_Witness ==
    /\ pc = "chosen"
    /\ Len(observed) = 2
    /\ LET T == StatedEntries
       IN /\ IsBest(T, 1)
          /\ IsBest(T, 2)
          /\ T[1].score = T[2].score
    /\ res # None
    /\ res.crop = observed[1].crop

\* the orders in which the keys of obs can have been inserted
Orderings(obs) ==
    { [i \in 1..Len(obs) |-> obs[f[i]]] :
        f \in { g \in [1..Len(obs) -> 1..Len(obs)] :
                  \A a, b \in 1..Len(obs) : a # b => g[a] # g[b] } }

\* C22: unless two non-rejected keys tie for the greatest score, every
\* insertion order of the same keys, counts and threshold sets gives the
\* same CropResult.
C22_OrderIndependent ==
    pc = "chosen" =>
        LET T == StatedEntries
            tie == \E i, j \in Entries : i # j /\ IsBest(T, i) /\ IsBest(T, j)
        IN ~tie =>
             \A o \in Orderings(observed) :
                 choose_best_crop(vi, o, crop_to_limits) = res

\* without a tie the key inserted last was returned, so another order
\* scores it first
C22_Witness ==
    /\ pc = "chosen"
    /\ Len(observed) = 2
    /\ LET T == StatedEntries
       IN T[1].ok /\ T[2].ok /\ RatLess(T[1].score, T[2].score)
    /\ res # None
    /\ res.crop = observed[2].crop

\* ----------------------------------------------------------- claims on main

Rows == 1..Len(results_rows)

ManualMode == crop_mode(settings) = ManualWord

\* W - left - right and H - top - bottom for the video of row i
MarginWidth(i) == results_rows[i].width - manual_crop.left - manual_crop.right
MarginHeight(i) == results_rows[i].height - manual_crop.top - manual_crop.bottom

\* C4: every reported crop has width > 0, height > 0 and area <= W*H.
C4_ReportedCropsValid ==
    \A i \in Rows :
        /\ results_rows[i].crop_w > 0
        /\ results_rows[i].crop_h > 0
        /\ results_rows[i].crop_w * results_rows[i].crop_h
             <= results_rows[i].width * results_rows[i].height

\* C6: a detector call of detect_ffmpeg that times out adds no observation
\* and detect_ffmpeg goes on to the next (threshold, timestamp) pair.
C6_SegmentFailureSwallowed ==
    [][ (pc = "ffmpeg" /\ last_call' = [tool |-> "ffmpeg", outcome |-> "timeout"])
        => /\ pc' = "ffmpeg"
           /\ observed' = observed
           /\ crop_to_limits' = crop_to_limits
           /\ det' = StepPair(det) ]_vars

\* C7: no failure of a probe or of a detection aborts the batch: main never
\* ends on an exception, and when it ends every video was visited and the
\* report written.
C7_BatchNeverAborts ==
    /\ pc # "crashed"
    /\ exc = "none"
    /\ pc = "done" => (report_written /\ idx = Len(videos) + 1)

\* C8: in manual mode, margins that leave no width or no height give the
\* crop W:H:0:0.
C8_OvershootGivesFullFrame ==
    \A i \in Rows :
        (ManualMode /\ (MarginWidth(i) <= 0 \/ MarginHeight(i) <= 0))
        => results_rows[i].crop
             = CropStr(results_rows[i].width, results_rows[i].height, 0, 0)

\* C9: in manual mode, margins that leave a width and a height give the
\* crop (W-left-right):(H-top-bottom):left:top, confidence 1.0, note
\* "Manual".
C9_ManualArithmetic ==
    \A i \in Rows :
        (ManualMode /\ MarginWidth(i) > 0 /\ MarginHeight(i) > 0)
        => /\ results_rows[i].crop
                = CropStr(MarginWidth(i), MarginHeight(i),
                          manual_crop.left, manual_crop.top)
           /\ results_rows[i].crop_w = MarginWidth(i)
           /\ results_rows[i].crop_h = MarginHeight(i)
           /\ results_rows[i].crop_x = manual_crop.left
           /\ results_rows[i].crop_y = manual_crop.top
           /\ results_rows[i].confidence = 10000
           /\ results_rows[i].notes = "Manual"

\* W=1920, H=1080, top=140, bottom=140, left=0, right=0 gave 1920:800:0:140
C9_Witness ==
    /\ ManualMode
    /\ manual_crop = [top |-> 140, bottom |-> 140, left |-> 0, right |-> 0]
    /\ \E i \in Rows :
         /\ results_rows[i].width = 1920
         /\ results_rows[i].height = 1080
         /\ results_rows[i].crop
              = <<"1", "9", "2", "0", ":", "8", "0", "0", ":", "0", ":", "1", "4", "0">>
         /\ results_rows[i].confidence = 10000

\* the integer a margin line of the drawn settings holds
MarginValue(s) ==
    IF s = <<"-", "2">> THEN -2
    ELSE IF s = <<"1", "4", "0">> THEN 140
    ELSE IF s = <<"6", "0", "0">> THEN 600
    ELSE 0

\* the last row main has appended, in the next state
NewRow == results_rows'[Len(results_rows')]

\* C14: when the detection of a video returns None, main appends for that
\* video the row W:H:0:0 with confidence 0, no samples and the note
\* "Failed/Full", raises nothing and goes on to the next video.
C14_NoneGivesFullFrame ==
    [][ (pc \in {"dispatch", "ffmpeg", "vs"} /\ idx' = idx + 1 /\ res' = None)
        => /\ pc' \in {"probe", "write"}
           /\ exc' = "none"
           /\ Len(results_rows') = Len(results_rows) + 1
           /\ NewRow.file = idx
           /\ NewRow.crop = CropStr(vi.width, vi.height, 0, 0)
           /\ NewRow.crop_w = vi.width
           /\ NewRow.crop_h = vi.height
           /\ NewRow.crop_x = 0
           /\ NewRow.crop_y = 0
           /\ NewRow.confidence = 0
           /\ NewRow.samples_seen = 0
           /\ NewRow.notes = "Failed/Full" ]_vars

\* FFmpeg mode: the first video had no observation and got 1920:1080:0:0,
\* the second was detected, and the report was written
C14_Witness ==
    /\ pc = "done"
    /\ ~args.aggressive
    /\ Len(results_rows) = 2
    /\ results_rows[1].notes = "Failed/Full"
    /\ results_rows[1].crop
         = <<"1", "9", "2", "0", ":", "1", "0", "8", "0", ":", "0", ":", "0">>
    /\ results_rows[1].confidence = 0
    /\ results_rows[2].file = 2
    /\ results_rows[2].notes = "moderate agreement"

\* C16: in manual mode each margin that is missing from the settings or is
\* not an integer is 0, whatever the other three are: the margins that are
\* integers keep their values.
C16_BadMarginsAreZero ==
    (ManualMode /\ pc # "start") =>
        \A k \in MarginKeys :
           /\ (k \notin DOMAIN settings) => manual_crop[k] = 0
           /\ (k \in DOMAIN settings) =>
                manual_crop[k] = MarginValue(settings[k])

\* top=x and left=140: top is 0, left is 140, bottom and right (missing) 0
C16_Witness ==
    /\ pc = "done"
    /\ DOMAIN settings = {"crop", "top", "left"}
    /\ settings["top"] = <<"x">>
    /\ settings["left"] = <<"1", "4", "0">>
    /\ manual_crop = [top |-> 0, bottom |-> 0, left |-> 140, right |-> 0]
    /\ Len(results_rows) >= 1

\* C17: when the settings say crop=manual (in any case), no detector runs
\* for any video, with --aggressive or without: main is never inside
\* detect_ffmpeg or detect_vapoursynth, and no ffmpeg or VapourSynth call
\* was made.
C17_ManualNeverDetects ==
    ("crop" \in DOMAIN settings /\ Lower(settings["crop"]) = ManualWord) =>
        /\ pc \notin {"ffmpeg", "vs"}
        /\ last_call.tool \notin {"ffmpeg", "vapoursynth"}
        /\ det = NoDet
        /\ scan = NoScan
        /\ observed = <<>>

\* crop=Manual with --aggressive: two videos reported, both rows "Manual"
C17_Witness ==
    /\ pc = "done"
    /\ "crop" \in DOMAIN settings
    /\ args.aggressive
    /\ Len(results_rows) = 2
    /\ \A i \in Rows : results_rows[i].notes = "Manual"

\* C19: every key of the Observation Set detect_ffmpeg builds is a
\* rectangle inside the frame: w > 0, h > 0, x >= 0, y >= 0, x + w <= W,
\* y + h <= H.
C19_ObservedInFrame ==
    pc = "ffmpeg" =>
        \A i \in Entries :
            LET r == ParseCrop(observed[i].crop)
            IN /\ r[1] > 0
               /\ r[2] > 0
               /\ r[3] >= 0
               /\ r[4] >= 0
               /\ r[3] + r[1] <= vi.width
               /\ r[4] + r[2] <= vi.height

\* C20 as stated: the Observation Set of a run over T thresholds and N
\* timestamps holds at most T*N observations.
C20_AtMostOnePerSample ==
    pc = "ffmpeg" =>
        SumCounts(observed) <= Len(UsedLimits) * Len(det.timestamps)

\* C20 amended: each (threshold, timestamp) sample adds one observation per
\* crop line its detector call returns, so the Observation Set holds as many
\* observations as crop lines were returned.
C20_OnePerCropLine ==
    [][ (pc = "ffmpeg" /\ det' # det)
        => SumCounts(observed') = SumCounts(observed) + last_call'.lines ]_vars

\* T = 2, N = 1: a call that returned two crop lines has brought the
\* Observation Set above T*N observations
C20_Witness ==
    /\ pc = "ffmpeg"
    /\ last_call = [tool |-> "ffmpeg", outcome |-> "returned", lines |-> 2]
    /\ Len(det.timestamps) = 1
    /\ SumCounts(observed) > Len(UsedLimits) * Len(det.timestamps)

\* C26: sample_timestamps returns a non-empty list without raising for
\* every duration >= 0 and every n >= 1: a run with --samples >= 1 never
\* ends on the ZeroDivisionError of sample_timestamps and detect_ffmpeg
\* always has a timestamp to loop over.
C26_TimestampsNonEmpty ==
    args.samples >= 1 =>
        /\ exc # "ZeroDivisionError"
        /\ pc = "ffmpeg" => det.timestamps # <<>>

\* C27: detect_ffmpeg prints one PROGRESS value per (threshold, timestamp)
\* pair, after the pair's detector call; the values never decrease, stay
\* within 0..100, and once detect_ffmpeg has ended there is one value per
\* pair and the last is 100.
C27_ProgressPerPair ==
    /\ \A k \in 1..Len(progress) : progress[k] >= 0 /\ progress[k] <= 100
    /\ \A k \in 1..(Len(progress) - 1) : progress[k] <= progress[k + 1]
    /\ pc = "ffmpeg" => Len(progress) = current_step(det) - 1
    /\ (det # NoDet /\ pc # "ffmpeg" /\ exc # "ZeroDivisionError") =>
          /\ Len(progress) = total_steps(det)
          /\ total_steps(det) > 0 => progress[Len(progress)] = 100

\* ---------------------------------------------------------- claims on opus.py

AllExited == \A i \in 1..PARALLELISM : threads[i].pc = "exited"

\* C23: once the workers have taken every queued file and ended,
\* files_queue.join() can return (or has returned): no put is left without
\* its task_done().
C23_JoinReturns ==
    (pc \in {"start", "join"} /\ files_queue = <<>> /\ AllExited)
        => unfinished_tasks = 0

\* C24: no file is handed to two workers, and when all workers have ended
\* the queue is empty and every file of the phase was handed out.
C24_EachFileTakenOnce ==
    /\ \A a, b \in DOMAIN taken : a # b => taken[a].file # taken[b].file
    /\ (pc \notin {"run_phase", "complete"} /\ AllExited) =>
          /\ files_queue = <<>>
          /\ { taken[k].file : k \in DOMAIN taken }
               = { files[k] : k \in DOMAIN files }

\* two files went to two different workers and all workers have ended
C24_Witness ==
    /\ AllExited
    /\ Len(files) = 2
    /\ Len(taken) = 2
    /\ taken[1].slot # taken[2].slot

\* ----------------------------------------------------------- claims on mux.py

\* the files of the run that mux_files has finished handling (those
\* without a source are skipped, not handled)
Handled ==
    { k \in DOMAIN av1_files :
        /\ av1_files[k].source_mkv
        /\ pc \in {"file", "timecodes", "extract", "merge", "complete"}
        /\ k < mux_i }

\* C25: after mux_files has finished handling a file, neither its
\* temporary mkv nor its timestamps file is in the output directory,
\* whether every step succeeded or one failed.
C25_NoTempFilesLeft ==
    \A k \in Handled : temp_mkv(k) \notin disk /\ timestamp_file(k) \notin disk

\* --------------------------------------------------- claims on workercount.py

\* k workers fit: k times the peak stays within 90% of the RAM, and each
\* worker has three CPU threads
Fits(k) ==
    /\ 10 * k * max_total_rss <= 9 * total_ram
    /\ 3 * k <= cpu_threads

\* C28: get_optimal_workers returns an integer >= 1 on every path; when a
\* peak was measured the result is the greatest worker count that fits
\* both the RAM and the CPU limit, and 1 when not even one worker fits.
C28_WorkersAtLeastOne ==
    pc = "returned" =>
        /\ final_workers \in Nat
        /\ final_workers >= 1
        /\ max_total_rss > 0 =>
              /\ final_workers > 1 => Fits(final_workers)
              /\ ~Fits(final_workers + 1)

\* a peak was measured and more than one worker fits, the RAM being the
\* tighter limit
C28_Witness ==
    /\ pc = "returned"
    /\ max_total_rss > 0
    /\ final_workers = 3
    /\ 3 * (final_workers + 1) <= cpu_threads

\* ------------------------------------------------------ claims on dispatch.py

\* argument i is the value that follows a --fast-params or --final-params
\* (an option word taken as a value is not an option itself)
RECURSIVE IsValue(_)
IsValue(i) == i > 1 /\ argv[i - 1] \in ParamOptions /\ ~IsValue(i - 1)

\* the report that was read names the value for all three keys
Reported709 ==
    \A c \in 1..Len(ColorKeys) : \E k \in DOMAIN mediainfo :
        mediainfo[k].key = ColorKeys[c] /\ mediainfo[k].value = BT709
Reported601 ==
    \A c \in 1..Len(ColorKeys) : \E k \in DOMAIN mediainfo :
        mediainfo[k].key = ColorKeys[c] /\ Contains(BT601, mediainfo[k].value)

ExpectedFlags ==
    IF Reported709 THEN bt709_flags
    ELSE IF Reported601 THEN bt601_flags ELSE ""

\* the arguments handed to the encoder script
EncoderArgs == SubSeq(final_cmd, 3, Len(final_cmd))

\* every original argument is in its place, the values with the flags
ArgsKept ==
    \A i \in 1..Len(argv) :
        /\ i <= Len(EncoderArgs)
        /\ EncoderArgs[i] = IF IsValue(i) THEN argv[i] \o ExpectedFlags
                            ELSE argv[i]

\* the last argument is a --fast-params or --final-params without a value
TrailingOption ==
    /\ argv # <<>>
    /\ argv[Len(argv)] \in ParamOptions
    /\ ~IsValue(Len(argv))

\* C29 as stated: the command holds the original arguments in their order
\* and nothing else, and only the values after --fast-params and
\* --final-params are changed, by the flags of the detected colour space.
C29_OnlyValuesChange ==
    pc = "built" =>
        /\ Len(EncoderArgs) = Len(argv)
        /\ ArgsKept

\* C29 amended: as stated, except that an empty argument is added after a
\* --fast-params or --final-params that ends the command line.
C29_ValuesChangeEmptyAdded ==
    pc = "built" =>
        /\ ArgsKept
        /\ IF TrailingOption
           THEN /\ Len(EncoderArgs) = Len(argv) + 1
                /\ EncoderArgs[Len(argv) + 1] = ""
           ELSE Len(EncoderArgs) = Len(argv)

\* a BT.601 report was read and a value got the BT.601 flags
C29_Witness ==
    /\ pc = "built"
    /\ Reported601
    /\ current_flags = bt601_flags
    /\ \E i \in 1..Len(argv) : IsValue(i) /\ EncoderArgs[i] # argv[i]

\* -------------------------------------------------------- claims on rename.py

\* the name has an extension: a dot with something other than dots
\* before it
HasExtension(f) ==
    \E i, j \in 1..Len(f) : j < i /\ f[i] = "." /\ f[j] # "."

\* C30 as stated: for every file name, cleaning the cleaned name gives the
\* cleaned name again.
C30_Idempotent ==
    [][pc = "cleaned" => new_name' = new_name]_vars

\* C30 amended: for every file name with an extension, cleaning the
\* cleaned name gives the cleaned name again.
C30_IdempotentWithExtension ==
    [][(pc = "cleaned" /\ HasExtension(filename)) => new_name' = new_name]_vars

\* 'a a.mkv' was cleaned twice and is a.a-source.mkv both times
C30_Witness ==
    /\ pc = "recleaned"
    /\ new_name = filename
    /\ new_name = (<<"a", ".", "a">> \o SourceSuffix) \o MkvExt

====
